---- MODULE Spec2Model ----
(***************************************************************************)
(* A state-machine model of the EOS_connect inverter interface layer:      *)
(*   src/src/interfaces/inverter_base.py        BaseInverter               *)
(*   src/src/interfaces/inverters/null_inverter.py   NullInverter          *)
(*   src/src/interfaces/inverters/victron.py    VictronInverter            *)
(*   src/src/interfaces/inverters/inverter_factory.py   create_inverter    *)
(*   src/tests/interfaces/test_base_inverter.py MockInverter               *)
(* The two HTTP backends (FroniusV2, FroniusLegacy) are imported by the    *)
(* factory but their modules are not part of the source tree; their        *)
(* session protocol is modelled from sections 4.2 and 4.3 of the           *)
(* specification and from the attribute defaults their tests assert.       *)
(*                                                                         *)
(* Encoding.  Python strings that the code converts (type, user) are       *)
(* sequences of one-character strings, so that str.lower() is computed     *)
(* character by character.  An optional value (a missing dict key, None,   *)
(* an attribute that does not exist yet) is <<>> and a present one <<v>>.  *)
(* The result of a call is [kind, val]: kind "return" with the returned    *)
(* value's name, or kind "raise" with the exception class's name.          *)
(***************************************************************************)
EXTENDS Integers, Sequences, FiniteSets, TLC

VARIABLES inst, last

vars == <<inst, last>>

------------------------------------------------------------------------------
(* Bounds of the model *)

\* How many leading characters of a registered type string are varied
\* between upper and lower case when enumerating factory inputs.
MaxCasePos == 2

\* Largest value the nonce-use counter is driven to.
MaxNc == 4

\* Largest number of re-issued challenges (nonce epochs) explored.
MaxNonce == 2

------------------------------------------------------------------------------
(* Strings and str.lower() *)

UpperAlpha ==
    <<"A","B","C","D","E","F","G","H","I","J","K","L","M",
      "N","O","P","Q","R","S","T","U","V","W","X","Y","Z">>

LowerAlpha ==
    <<"a","b","c","d","e","f","g","h","i","j","k","l","m",
      "n","o","p","q","r","s","t","u","v","w","x","y","z">>

LowerChar(c) ==
    IF \E k \in 1..26 : UpperAlpha[k] = c
    THEN LowerAlpha[CHOOSE k \in 1..26 : UpperAlpha[k] = c]
    ELSE c

UpperChar(c) ==
    IF \E k \in 1..26 : LowerAlpha[k] = c
    THEN UpperAlpha[CHOOSE k \in 1..26 : LowerAlpha[k] = c]
    ELSE c

\* str.lower()
Lower(s) == [k \in 1..Len(s) |-> LowerChar(s[k])]

\* str.upper()
Upper(s) == [k \in 1..Len(s) |-> UpperChar(s[k])]

\* s with the characters at the positions P in upper case
UpperAt(s, P) == [k \in 1..Len(s) |-> IF k \in P THEN UpperChar(s[k]) ELSE s[k]]

Range(s) == {s[k] : k \in 1..Len(s)}

------------------------------------------------------------------------------
(* Optional values *)

None == <<>>

Some(v) == <<v>>

\* dict.get(key, default) on a field that is <<>> when the key is missing
Get(field, default) == IF field = None THEN default ELSE field[1]

------------------------------------------------------------------------------
(* The registries of inverter_factory.py *)

T_victron == <<"v","i","c","t","r","o","n">>

T_fronius_gen24 == <<"f","r","o","n","i","u","s","_","g","e","n","2","4">>

T_evcc == <<"e","v","c","c">>

T_default == <<"d","e","f","a","u","l","t">>

T_fronius_gen24_legacy == T_fronius_gen24 \o <<"_","l","e","g","a","c","y">>

T_fronius_gen24_v2 == T_fronius_gen24 \o <<"_","v","2">>

\* dict keys in insertion order, as list(INVERTER_TYPES.keys()) gives them
INVERTER_TYPES_keys == <<T_victron, T_fronius_gen24, T_evcc, T_default>>

INVERTER_TYPES(t) ==
    CASE t = T_victron       -> "VictronInverter"
      [] t = T_fronius_gen24 -> "FroniusV2"
      [] t = T_evcc          -> "NullInverter"
      [] t = T_default       -> "NullInverter"

LEGACY_INVERTER_TYPES_keys == <<T_fronius_gen24_legacy, T_fronius_gen24_v2>>

LEGACY_INVERTER_TYPES(t) ==
    CASE t = T_fronius_gen24_legacy -> "FroniusLegacy"
      [] t = T_fronius_gen24_v2     -> "FroniusV2"

RegisteredKeys == Range(INVERTER_TYPES_keys) \cup Range(LEGACY_INVERTER_TYPES_keys)

\* the class a registered key maps to, active tier first
RegistryClass(t) ==
    IF t \in Range(INVERTER_TYPES_keys) THEN INVERTER_TYPES(t)
    ELSE LEGACY_INVERTER_TYPES(t)

------------------------------------------------------------------------------
(* Configuration records *)

S_customer == <<"c","u","s","t","o","m","e","r">>

S_MyUser == <<"M","y","U","s","e","r">>

S_CUSTOMER == Upper(S_customer)

\* type strings that are in neither registry
UnknownTypes ==
    { <<>>,
      <<"u","n","k","n","o","w","n">>,
      <<"e","v","c">>,
      <<"f","r","o","n","i","u","s">>,
      T_victron \o <<"2">>,
      <<"N","u","l","l","I","n","v","e","r","t","e","r">> }

\* upper/lower-case variants of a registered key: every choice of case on
\* its first MaxCasePos characters, and the key in upper case throughout
CaseVariants(t) ==
    { UpperAt(t, P) : P \in SUBSET (1..(IF Len(t) < MaxCasePos THEN Len(t) ELSE MaxCasePos)) }
        \cup { Upper(t) }

Config(type, address, user, password, grid, pv) ==
    [ type                 |-> type,
      address              |-> address,
      user                 |-> user,
      password             |-> password,
      max_grid_charge_rate |-> grid,
      max_pv_charge_rate   |-> pv ]

\* inputs of the factory: every registered key in every enumerated case
\* variant, unknown strings, and records without a type key
FactoryTypes ==
    { None } \cup { Some(t) : t \in UnknownTypes }
        \cup { Some(v) : v \in UNION { CaseVariants(k) : k \in RegisteredKeys } }

FactoryConfigs ==
    { Config(ty, ad, us, pw, g, pv) :
        ty \in FactoryTypes,
        ad \in { None, Some("192.168.1.100") },
        us \in { None, Some(S_customer), Some(S_MyUser), Some(S_CUSTOMER) },
        pw \in { None, Some("test_password") },
        g  \in { None, Some(10000) },
        pv \in { None, Some(15000) } }

\* configurations the operations are exercised on
CeilingPairs ==
    { <<None, None>>, <<Some(10000), Some(15000)>>,
      <<Some(5000), Some(5000)>>, <<Some(10000), None>> }

OperationTypes ==
    { Some(k) : k \in RegisteredKeys } \cup { Some(Upper(T_evcc)), Some(<<>>), None }

\* records that give only the type and the address
MinimalConfigs ==
    { Config(Some(k), Some("192.168.1.1"), None, None, None, None) :
        k \in { T_fronius_gen24, T_fronius_gen24_legacy } }

Configs ==
    { Config(ty, Some("192.168.1.100"), us, Some("test_password"), c[1], c[2]) :
        ty \in OperationTypes, us \in { None, Some(S_MyUser) }, c \in CeilingPairs }
        \cup MinimalConfigs

\* the fixture of tests/interfaces/test_base_inverter.py, without and with
\* ceilings
MockConfigs ==
    { Config(None, Some("192.168.0.100"), Some(<<"a","d","m","i","n">>), Some("secret"),
             c[1], c[2]) : c \in { <<None, None>>, <<Some(10000), Some(15000)>> } }

------------------------------------------------------------------------------
(* Classes *)

\* the methods BaseInverter declares with @abstractmethod
AbstractMethods ==
    { "initialize", "set_battery_mode", "set_mode_avoid_discharge",
      "set_mode_allow_discharge", "set_allow_grid_charging", "get_battery_info",
      "fetch_inverter_data", "set_mode_force_charge", "connect_inverter",
      "disconnect_inverter" }

HttpClasses == { "FroniusV2", "FroniusLegacy" }

Classes == { "NullInverter", "VictronInverter", "MockInverter" } \cup HttpClasses

VictronMethods_Incomplete == AbstractMethods \ { "disconnect_inverter" }

\* the methods each subclass defines itself
NullMethods ==
    { "__init__", "initialize", "connect_inverter", "disconnect_inverter",
      "set_battery_mode", "set_mode_avoid_discharge", "set_mode_allow_discharge",
      "set_mode_force_charge", "set_allow_grid_charging", "get_battery_info",
      "fetch_inverter_data", "supports_extended_monitoring" }

VictronMethods ==
    { "__init__", "initialize", "set_mode_avoid_discharge", "set_mode_allow_discharge",
      "set_allow_grid_charging", "set_battery_mode", "get_battery_info",
      "fetch_inverter_data", "set_mode_force_charge", "connect_inverter",
      "disconnect_inverter" }

MockMethods ==
    { "initialize", "connect_inverter", "disconnect_inverter", "set_battery_mode",
      "get_battery_info", "fetch_inverter_data", "set_mode_force_charge",
      "set_allow_grid_charging", "set_mode_allow_discharge", "set_mode_avoid_discharge" }

\* the HTTP backends: their tests instantiate them, so no abstract method
\* is left, and find extended monitoring supported
HttpMethods == AbstractMethods \cup { "__init__", "supports_extended_monitoring" }

Overrides(cls) ==
    CASE cls = "NullInverter"    -> NullMethods
      [] cls = "VictronInverter" -> VictronMethods
      [] cls = "MockInverter"    -> MockMethods
      [] cls \in HttpClasses     -> HttpMethods

------------------------------------------------------------------------------
(* Results of calls *)

Return(v) == [kind |-> "return", val |-> v]

Raise(e) == [kind |-> "raise", val |-> e]

------------------------------------------------------------------------------
(* Construction *)

\* attributes only MockInverter's methods create; <<>> until first assigned
NoMockAttrs ==
    [ inverter_connected    |-> None,
      last_mode_set         |-> None,
      forced_charge_power   |-> None,
      grid_charging_allowed |-> None ]

\* the login-attempt cap of the HTTP backends
MaxLoginAttempts == 3

InitialSession_CounterFromZero(cls) ==
    [ nonce            |-> 0,
      ncvalue_num      |-> 0,
      nc_used          |-> 0,
      auth_nc          |-> 0,
      subsequent_login |-> FALSE,
      login_attempts   |-> 0,
      algorithm        |-> IF cls = "FroniusV2" THEN "SHA256" ELSE "fixed",
      pc               |-> "idle",
      resume           |-> "idle",
      min_soc          |-> 5,
      max_soc          |-> 100,
      capacity         |-> -1 ]

\* the session an HTTP backend starts with; the values are those its tests
\* assert right after construction
InitialSession(cls) ==
    [ nonce            |-> 0,
      ncvalue_num      |-> 1,
      nc_used          |-> 0,
      auth_nc          |-> 0,
      subsequent_login |-> FALSE,
      login_attempts   |-> 0,
      algorithm        |-> IF cls = "FroniusV2" THEN "SHA256" ELSE "fixed",
      pc               |-> "idle",
      resume           |-> "idle",
      min_soc          |-> 5,
      max_soc          |-> 100,
      capacity         |-> -1 ]

BaseInverter_init_KeepCase(cls, config) ==
    [ cls                  |-> cls,
      config               |-> config,
      address              |-> config.address,
      user                 |-> Get(config.user, S_customer),
      password             |-> Get(config.password, ""),
      max_grid_charge_rate |-> config.max_grid_charge_rate,
      max_pv_charge_rate   |-> config.max_pv_charge_rate,
      is_authenticated     |-> FALSE,
      inverter_type        |-> cls,
      mock                 |-> NoMockAttrs,
      session              |-> None ]

\* BaseInverter.__init__
BaseInverter_init(cls, config) ==
    [ cls                  |-> cls,
      config               |-> config,
      address              |-> config.address,
      user                 |-> Lower(Get(config.user, S_customer)),
      password             |-> Get(config.password, ""),
      max_grid_charge_rate |-> config.max_grid_charge_rate,
      max_pv_charge_rate   |-> config.max_pv_charge_rate,
      is_authenticated     |-> FALSE,
      inverter_type        |-> cls,
      mock                 |-> NoMockAttrs,
      session              |-> None ]

\* cls.__init__(config): the subclasses' constructors call the base one; the
\* HTTP backends add their session attributes
ClassInit(cls, config) ==
    IF cls \in HttpClasses
    THEN [BaseInverter_init(cls, config) EXCEPT !.session = Some(InitialSession(cls))]
    ELSE BaseInverter_init(cls, config)

\* cls(config): Python refuses to instantiate a class that leaves an abstract
\* method of its ABC undefined
Construct(cls, config) ==
    IF AbstractMethods \subseteq Overrides(cls)
    THEN [out |-> Return(cls), obj |-> Some(ClassInit(cls, config))]
    ELSE [out |-> Raise("TypeError"), obj |-> None]

------------------------------------------------------------------------------
(* The factory *)

\* sep.join(parts)
RECURSIVE Join(_, _)
Join(parts, sep) ==
    IF parts = <<>> THEN <<>>
    ELSE IF Len(parts) = 1 THEN parts[1]
    ELSE parts[1] \o sep \o Join(Tail(parts), sep)

CommaSpace == <<",", " ">>

MsgUnknown == <<"U","n","k","n","o","w","n"," ","i","n","v","e","r","t","e","r"," ","t","y","p","e",":"," ","'">>

MsgSupported == <<"'","."," ","S","u","p","p","o","r","t","e","d"," ","t","y","p","e","s",":"," ">>

\* the list the error message of create_inverter joins with ", "
SupportedTypes_ActiveOnly == INVERTER_TYPES_keys

SupportedTypes == INVERTER_TYPES_keys \o LEGACY_INVERTER_TYPES_keys

\* the text of the ValueError
ErrorMessage(inverter_type) ==
    MsgUnknown \o inverter_type \o MsgSupported \o Join(SupportedTypes, CommaSpace)

\* inverter_type = config.get("type", "").lower()
TypeOf_NoLower(config) == Get(config.type, <<>>)

TypeOf_DefaultsToDefault(config) == Lower(Get(config.type, T_default))

TypeOf(config) == Lower(Get(config.type, <<>>))

create_inverter_NoWarning(config) ==
    LET inverter_type == TypeOf(config) IN
    IF inverter_type \in Range(INVERTER_TYPES_keys)
    THEN LET r == Construct(INVERTER_TYPES(inverter_type), config)
         IN  [out |-> r.out, obj |-> r.obj, log |-> "info", message |-> <<>>]
    ELSE IF inverter_type \in Range(LEGACY_INVERTER_TYPES_keys)
    THEN LET r == Construct(LEGACY_INVERTER_TYPES(inverter_type), config)
         IN  [out |-> r.out, obj |-> r.obj, log |-> "info", message |-> <<>>]
    ELSE [out |-> Raise("ValueError"), obj |-> None, log |-> "",
          message |-> ErrorMessage(inverter_type)]

\* create_inverter(config): the outcome, the object built (if any), the log
\* level of the factory's message and the text of its error message
create_inverter(config) ==
    LET inverter_type == TypeOf(config) IN
    IF inverter_type \in Range(INVERTER_TYPES_keys)
    THEN LET r == Construct(INVERTER_TYPES(inverter_type), config)
         IN  [out |-> r.out, obj |-> r.obj, log |-> "info", message |-> <<>>]
    ELSE IF inverter_type \in Range(LEGACY_INVERTER_TYPES_keys)
    THEN LET r == Construct(LEGACY_INVERTER_TYPES(inverter_type), config)
         IN  [out |-> r.out, obj |-> r.obj, log |-> "warning", message |-> <<>>]
    ELSE [out |-> Raise("ValueError"), obj |-> None, log |-> "",
          message |-> ErrorMessage(inverter_type)]

------------------------------------------------------------------------------
(* Methods.  Each gives [self, out, sent, net]: the object after the call,  *)
(* the call's result, the command handed to the device (if any) and        *)
(* whether a network request was issued.                                   *)

Res(self, out) == [self |-> self, out |-> out, sent |-> None, net |-> FALSE]

Pending == [kind |-> "pending", val |-> ""]

(* BaseInverter: the concrete methods *)

Base_authenticate_NoFlag(self) == Res(self, Return("True"))

\* BaseInverter.authenticate
Base_authenticate(self) == Res([self EXCEPT !.is_authenticated = TRUE], Return("True"))

Base_api_set_max_pv_charge_rate_Stores(self, w) ==
    Res([self EXCEPT !.max_pv_charge_rate = Some(w)], Return("None"))

\* BaseInverter.api_set_max_pv_charge_rate
Base_api_set_max_pv_charge_rate(self, w) == Res(self, Return("None"))

\* BaseInverter.supports_extended_monitoring
Base_supports_extended_monitoring(self) == Res(self, Return("False"))

\* a result r of a call that also wrote text to the log
Logged(r, text) ==
    [self |-> r.self, out |-> r.out, sent |-> r.sent, net |-> r.net, log |-> text]

\* BaseInverter.disconnect: logs "[<inverter_type>] Session closed"
Base_disconnect(self) == Logged(Res(self, Return("None")), "Session closed")

Base_shutdown_NoDisconnect(self) == Res(self, Return("None"))

Base_shutdown_DisconnectsInverter(self) ==
    CASE self.cls = "VictronInverter" -> Res(self, Raise("NotImplementedError"))
      [] self.cls = "MockInverter" ->
            Logged(Res([self EXCEPT !.mock.inverter_connected = Some(FALSE)],
                       Return("None")), "Session closed")
      [] OTHER -> Logged(Res(self, Return("None")), "Session closed")

\* BaseInverter.shutdown: self.disconnect(), whose result it discards
Base_shutdown(self) ==
    LET r == Base_disconnect(self) IN [r EXCEPT !.out = Return("None")]

(* NullInverter *)

Null_initialize(self) == Res([self EXCEPT !.is_authenticated = TRUE], Return("None"))

Null_connect_inverter_Unready(self) ==
    Res(self, IF self.is_authenticated THEN Return("True") ELSE Return("False"))

Null_connect_inverter(self) == Res(self, Return("True"))

Null_disconnect_inverter_Unconnected(self) ==
    Res(self, IF self.is_authenticated THEN Return("True") ELSE Return("False"))

Null_disconnect_inverter_ClearsAuth(self) ==
    Res([self EXCEPT !.is_authenticated = FALSE], Return("True"))

Null_disconnect_inverter(self) == Res(self, Return("True"))

Null_set_battery_mode_Validates(self, mode) ==
    Res(self, IF mode \in {"normal", "hold"} THEN Return("True") ELSE Return("False"))

Null_set_battery_mode(self, mode) == Res(self, Return("True"))

Null_set_mode_avoid_discharge_Fails(self) == Res(self, Return("False"))

Null_set_mode_avoid_discharge(self) == Res(self, Return("True"))

Null_set_mode_allow_discharge(self) == Res(self, Return("True"))

Null_set_mode_force_charge_Sends(self, charge_power_w) ==
    [ self |-> self, out |-> Return("True"),
      sent |-> Some([cmd |-> "charge", mode |-> "", power |-> charge_power_w]),
      net  |-> FALSE ]

Null_set_mode_force_charge(self, charge_power_w) == Res(self, Return("True"))

Null_set_allow_grid_charging_ZeroesCeiling(self, value) ==
    Res(IF value THEN self ELSE [self EXCEPT !.max_grid_charge_rate = Some(0)],
        Return("None"))

Null_set_allow_grid_charging(self, value) == Res(self, Return("None"))

Null_get_battery_info_Guarded(self) ==
    IF self.is_authenticated THEN Res(self, Return("{}"))
    ELSE Res(self, Raise("UnauthenticatedCallError"))

Null_get_battery_info(self) == Res(self, Return("{}"))

Null_fetch_inverter_data(self) == Res(self, Return("{}"))

Null_supports_extended_monitoring(self) == Res(self, Return("False"))

(* VictronInverter *)

Victron_initialize(self) == Res(self, Raise("NotImplementedError"))

Victron_set_mode_avoid_discharge(self) == Res(self, Raise("NotImplementedError"))

Victron_set_mode_allow_discharge(self) == Res(self, Raise("NotImplementedError"))

Victron_set_allow_grid_charging(self, value) == Res(self, Raise("NotImplementedError"))

Victron_set_battery_mode(self, mode) == Res(self, Raise("NotImplementedError"))

Victron_get_battery_info(self) == Res(self, Raise("NotImplementedError"))

Victron_fetch_inverter_data_Empty(self) == Res(self, Return("{}"))

Victron_fetch_inverter_data(self) == Res(self, Raise("NotImplementedError"))

Victron_set_mode_force_charge(self, charge_power_w) == Res(self, Raise("NotImplementedError"))

Victron_connect_inverter(self) == Res(self, Raise("NotImplementedError"))

Victron_disconnect_inverter(self) == Res(self, Raise("NotImplementedError"))

(* MockInverter of tests/interfaces/test_base_inverter.py *)

Mock_initialize(self) ==
    Res([self EXCEPT !.mock.inverter_connected = Some(TRUE)], Return("None"))

Mock_connect_inverter(self) ==
    Res([self EXCEPT !.mock.inverter_connected = Some(TRUE)], Return("True"))

Mock_disconnect_inverter(self) ==
    Res([self EXCEPT !.mock.inverter_connected = Some(FALSE)], Return("True"))

Mock_set_battery_mode(self, mode) ==
    Res([self EXCEPT !.mock.last_mode_set = Some(mode)], Return("True"))

Mock_get_battery_info(self) == Res(self, Return("{charge, status}"))

Mock_fetch_inverter_data(self) == Res(self, Return("{voltage, current}"))

Mock_set_mode_force_charge(self, charge_power_w) ==
    Res([self EXCEPT !.mock.forced_charge_power = Some(charge_power_w)], Return("True"))

Mock_set_allow_grid_charging(self, value) ==
    Res([self EXCEPT !.mock.grid_charging_allowed = Some(value)], Return("None"))

------------------------------------------------------------------------------
(* The HTTP backends (FroniusV2, FroniusLegacy), from sections 4.2, 4.3    *)
(* and 7 of the specification.  resp is the server's answer to the         *)
(* request: "ok", "rejected" or "stale" (a stale nonce or an expired       *)
(* session).  A session's pc is "idle" between calls, "login" inside       *)
(* authenticate()'s bounded retry loop and "stale" when the server has     *)
(* signalled a stale nonce and the challenge has not been re-issued yet.   *)

Responses == { "ok", "rejected", "stale" }

Sess(self) == self.session[1]

WithSess(self, s) == [self EXCEPT !.session = Some(s)]

Min2(a, b) == IF a < b THEN a ELSE b

\* the requested power capped by every ceiling that is configured
Clamp(p, grid, pv) ==
    LET g == IF grid = None THEN p ELSE Min2(p, grid[1])
    IN  IF pv = None THEN g ELSE Min2(g, pv[1])

\* one use of the nonce: the counter value goes into the request, then the
\* counter moves on
UseNonce_NoIncrement(s) == [s EXCEPT !.nc_used = s.ncvalue_num]

\* (nc_used keeps the value the latest request carried, auth_nc the value
\* the latest successful login under the current nonce left in the counter)
UseNonce(s) == [s EXCEPT !.nc_used = s.ncvalue_num, !.ncvalue_num = s.ncvalue_num + 1]

\* an authenticated request carrying cmd; ok and failed are the call's
\* results when the server accepts and when it rejects
Http_request(self, resp, cmd, ok, failed) ==
    IF ~self.is_authenticated
    THEN Res(self, Raise("UnauthenticatedCallError"))
    ELSE LET s == UseNonce(Sess(self)) IN
         CASE resp = "ok" ->
                [self |-> WithSess(self, s), out |-> ok, sent |-> Some(cmd), net |-> TRUE]
           [] resp = "rejected" ->
                [self |-> WithSess(self, s), out |-> failed, sent |-> Some(cmd), net |-> TRUE]
           [] resp = "stale" ->
                [self |-> WithSess(self, [s EXCEPT !.pc = "stale", !.resume = "idle"]),
                 out  |-> Raise("AuthenticationError"), sent |-> Some(cmd), net |-> TRUE]

\* one login request of authenticate() and the server's answer to it
Http_login_request(self, resp) ==
    LET s == Sess(self)
        u == [UseNonce(s) EXCEPT !.login_attempts = s.login_attempts + 1]
    IN  CASE resp = "ok" ->
               [self |-> [WithSess(self, [u EXCEPT !.subsequent_login = TRUE,
                                                   !.login_attempts = 0,
                                                   !.auth_nc = u.ncvalue_num,
                                                   !.pc = "idle"])
                             EXCEPT !.is_authenticated = TRUE],
                out  |-> Return("True"), sent |-> None, net |-> TRUE]
          [] resp = "rejected" ->
               [self |-> WithSess(self, [u EXCEPT !.pc = "login"]),
                out  |-> Pending, sent |-> None, net |-> TRUE]
          [] resp = "stale" ->
               [self |-> WithSess(self, [u EXCEPT !.pc = "stale", !.resume = "login"]),
                out  |-> Pending, sent |-> None, net |-> TRUE]

\* the loop without its cap
Http_login_attempt_NoCap(self, resp) == Http_login_request(self, resp)

\* one pass of authenticate()'s loop: count the attempt, give up with
\* AuthenticationError once the count exceeds the cap, else send the login
\* request; a success marks the session, a failure retries
Http_login_attempt(self, resp) ==
    LET s == Sess(self)
        n == s.login_attempts + 1
    IN  IF s.login_attempts > MaxLoginAttempts
        THEN Res(WithSess(self, [s EXCEPT !.pc = "idle"]), Raise("AuthenticationError"))
        ELSE IF n > MaxLoginAttempts
        THEN Res(WithSess(self, [s EXCEPT !.login_attempts = n, !.pc = "idle"]),
                 Raise("AuthenticationError"))
        ELSE Http_login_request(self, resp)

Http_rechallenge_KeepCounter(self) ==
    LET s == Sess(self)
    IN  [self |-> WithSess(self, [s EXCEPT !.nonce = s.nonce + 1, !.auth_nc = 0,
                                            !.pc = s.resume, !.resume = "idle"]),
         out  |-> IF s.resume = "login" THEN Pending ELSE Return("None"),
         sent |-> None, net |-> TRUE]

\* the initial challenge request, re-issued: a new nonce, the counter back
\* at its initial value, the login flag back at "first"
Http_rechallenge(self) ==
    LET s == Sess(self)
    IN  [self |-> WithSess(self, [s EXCEPT !.nonce = s.nonce + 1,
                                            !.ncvalue_num = 1,
                                            !.nc_used = 0,
                                            !.auth_nc = 0,
                                            !.subsequent_login = FALSE,
                                            !.pc = s.resume, !.resume = "idle"]),
         out  |-> IF s.resume = "login" THEN Pending ELSE Return("None"),
         sent |-> None, net |-> TRUE]

ModeCmd(mode) == [cmd |-> "mode", mode |-> mode, power |-> 0]

Http_set_battery_mode(self, mode, resp) ==
    Http_request(self, resp, ModeCmd(mode), Return("True"), Return("False"))

Http_set_mode_force_charge(self, charge_power_w, resp) ==
    Http_request(self, resp,
                 [cmd |-> "charge", mode |-> "",
                  power |-> Clamp(charge_power_w, self.max_grid_charge_rate,
                                  self.max_pv_charge_rate)],
                 Return("True"), Return("False"))

Http_set_allow_grid_charging(self, value, resp) ==
    Http_request(self, resp,
                 [cmd |-> "grid_charging", mode |-> IF value THEN "on" ELSE "off", power |-> 0],
                 Return("None"), Return("None"))

Http_get_battery_info_Eager(self, resp) ==
    LET r == Http_request(self, resp, [cmd |-> "read_battery", mode |-> "", power |-> 0],
                          Return("BatteryInfo"), Raise("TransportError"))
    IN  [r EXCEPT !.self = WithSess(r.self, [Sess(r.self) EXCEPT !.capacity = 10000])]

\* a battery read; capacity is known from the first one that succeeds
Http_get_battery_info(self, resp) ==
    LET r == Http_request(self, resp, [cmd |-> "read_battery", mode |-> "", power |-> 0],
                          Return("BatteryInfo"), Raise("TransportError"))
    IN  IF r.out = Return("BatteryInfo")
        THEN [r EXCEPT !.self = WithSess(r.self, [Sess(r.self) EXCEPT !.capacity = 10000])]
        ELSE r

Http_fetch_inverter_data(self, resp) ==
    Http_request(self, resp, [cmd |-> "read_data", mode |-> "", power |-> 0],
                 Return("TelemetrySnapshot"), Raise("TransportError"))

Http_initialize(self) == Res(self, Return("None"))

Http_connect_inverter(self) == Res(self, Return("True"))

Http_disconnect_inverter(self) == Res(self, Return("True"))

------------------------------------------------------------------------------
(* The telemetry normalizer of the HTTP backends, strip_dict, from section  *)
(* 4.4 of the specification and the tests of fronius_v2 / fronius_legacy.  *)
(* A value is [kind, val]: a mapping from keys to leaf values ("dict"), a  *)
(* string, a number or None.                                               *)

Dict(f) == [kind |-> "dict", val |-> f]

Scalars ==
    { [kind |-> "str", val |-> "string"], [kind |-> "int", val |-> "123"],
      [kind |-> "None", val |-> ""] }

\* keys with a leading underscore, with an underscore elsewhere, with none,
\* and the empty key
DictKeys ==
    { <<"k","e","y">>, <<"p","u","b","l","i","c">>, <<"_","p","r","i","v","a","t","e">>,
      <<"_">>, <<"a","_","b">>, <<>> }

LeafValues == { "value", "hidden" }

NormalizerInputs ==
    Scalars \cup { Dict(f) : f \in UNION { [K -> LeafValues] : K \in SUBSET DictKeys } }

\* key.startswith("_")
IsInternalKey(key) == Len(key) > 0 /\ key[1] = "_"

strip_dict_AnyUnderscore(original) ==
    IF original.kind # "dict" THEN original
    ELSE Dict([k \in { k \in DOMAIN original.val : "_" \notin Range(k) } |-> original.val[k]])

\* strip_dict(original)
strip_dict(original) ==
    IF original.kind # "dict" THEN original
    ELSE Dict([k \in { k \in DOMAIN original.val : ~IsInternalKey(k) } |-> original.val[k]])

------------------------------------------------------------------------------
(* Method dispatch on the object's class *)

IsHttp(self) == self.cls \in HttpClasses

initialize(self) ==
    CASE self.cls = "NullInverter"    -> Null_initialize(self)
      [] self.cls = "VictronInverter" -> Victron_initialize(self)
      [] self.cls = "MockInverter"    -> Mock_initialize(self)
      [] IsHttp(self)                 -> Http_initialize(self)

connect_inverter(self) ==
    CASE self.cls = "NullInverter"    -> Null_connect_inverter(self)
      [] self.cls = "VictronInverter" -> Victron_connect_inverter(self)
      [] self.cls = "MockInverter"    -> Mock_connect_inverter(self)
      [] IsHttp(self)                 -> Http_connect_inverter(self)

disconnect_inverter(self) ==
    CASE self.cls = "NullInverter"    -> Null_disconnect_inverter(self)
      [] self.cls = "VictronInverter" -> Victron_disconnect_inverter(self)
      [] self.cls = "MockInverter"    -> Mock_disconnect_inverter(self)
      [] IsHttp(self)                 -> Http_disconnect_inverter(self)

set_battery_mode(self, mode, resp) ==
    CASE self.cls = "NullInverter"    -> Null_set_battery_mode(self, mode)
      [] self.cls = "VictronInverter" -> Victron_set_battery_mode(self, mode)
      [] self.cls = "MockInverter"    -> Mock_set_battery_mode(self, mode)
      [] IsHttp(self)                 -> Http_set_battery_mode(self, mode, resp)

Base_set_mode_avoid_discharge_WrongMode(self, resp) == set_battery_mode(self, "normal", resp)

\* BaseInverter.set_mode_avoid_discharge
Base_set_mode_avoid_discharge(self, resp) == set_battery_mode(self, "hold", resp)

\* BaseInverter.set_mode_allow_discharge
Base_set_mode_allow_discharge(self, resp) == set_battery_mode(self, "normal", resp)

\* MockInverter's two overrides call super(); the HTTP backends get both
\* from the shared primitive (section 4.1)
set_mode_avoid_discharge(self, resp) ==
    CASE self.cls = "NullInverter"    -> Null_set_mode_avoid_discharge(self)
      [] self.cls = "VictronInverter" -> Victron_set_mode_avoid_discharge(self)
      [] self.cls = "MockInverter"    -> Base_set_mode_avoid_discharge(self, resp)
      [] IsHttp(self)                 -> Base_set_mode_avoid_discharge(self, resp)

set_mode_allow_discharge(self, resp) ==
    CASE self.cls = "NullInverter"    -> Null_set_mode_allow_discharge(self)
      [] self.cls = "VictronInverter" -> Victron_set_mode_allow_discharge(self)
      [] self.cls = "MockInverter"    -> Base_set_mode_allow_discharge(self, resp)
      [] IsHttp(self)                 -> Base_set_mode_allow_discharge(self, resp)

set_mode_force_charge(self, charge_power_w, resp) ==
    CASE self.cls = "NullInverter"    -> Null_set_mode_force_charge(self, charge_power_w)
      [] self.cls = "VictronInverter" -> Victron_set_mode_force_charge(self, charge_power_w)
      [] self.cls = "MockInverter"    -> Mock_set_mode_force_charge(self, charge_power_w)
      [] IsHttp(self)                 -> Http_set_mode_force_charge(self, charge_power_w, resp)

set_allow_grid_charging(self, value, resp) ==
    CASE self.cls = "NullInverter"    -> Null_set_allow_grid_charging(self, value)
      [] self.cls = "VictronInverter" -> Victron_set_allow_grid_charging(self, value)
      [] self.cls = "MockInverter"    -> Mock_set_allow_grid_charging(self, value)
      [] IsHttp(self)                 -> Http_set_allow_grid_charging(self, value, resp)

get_battery_info(self, resp) ==
    CASE self.cls = "NullInverter"    -> Null_get_battery_info(self)
      [] self.cls = "VictronInverter" -> Victron_get_battery_info(self)
      [] self.cls = "MockInverter"    -> Mock_get_battery_info(self)
      [] IsHttp(self)                 -> Http_get_battery_info(self, resp)

fetch_inverter_data(self, resp) ==
    CASE self.cls = "NullInverter"    -> Null_fetch_inverter_data(self)
      [] self.cls = "VictronInverter" -> Victron_fetch_inverter_data(self)
      [] self.cls = "MockInverter"    -> Mock_fetch_inverter_data(self)
      [] IsHttp(self)                 -> Http_fetch_inverter_data(self, resp)

\* only the HTTP backends override authenticate
authenticate(self, resp) ==
    IF IsHttp(self) THEN Http_login_attempt(self, resp) ELSE Base_authenticate(self)

\* supports_extended_monitoring: NullInverter overrides it, the HTTP
\* backends advertise it, the others inherit the default
supports_extended_monitoring(self) ==
    CASE self.cls = "NullInverter" -> Null_supports_extended_monitoring(self)
      [] IsHttp(self)              -> Res(self, Return("True"))
      [] OTHER                     -> Base_supports_extended_monitoring(self)

------------------------------------------------------------------------------
(* State: inst[i] is <<>> until object i is built, then <<object>>; last   *)
(* records the latest call, its arguments and its result.                  *)

\* the slots for inverter objects; Spec drives the first, PairSpec both
AllIds == { 1, 2 }

InstanceIds == { 1 }

PairIds == AllIds

Modes == { "normal", "hold", "charge", "bogus" }

Powers == { 0, 3000, 5000, 10000, 20000 }

NoOut == [kind |-> "none", val |-> ""]

NoLast ==
    [ op |-> "none", id |-> 0, mode |-> "", power |-> 0, flag |-> FALSE, resp |-> "",
      out |-> NoOut, auth_before |-> FALSE, sent |-> None, net |-> FALSE,
      cfg |-> None, log |-> "", message |-> <<>>, input |-> None, output |-> None ]

Init ==
    /\ inst = [i \in AllIds |-> None]
    /\ last = NoLast

Built(i) == inst[i] # None

Obj(i) == inst[i][1]

\* object i exists and is between calls
Idle(i) == Built(i) /\ (IsHttp(Obj(i)) => Sess(Obj(i)).pc = "idle")

\* the answers explored for a request of object i: the bound MaxNonce stops
\* the stale signals
RespFor(i) ==
    IF ~IsHttp(Obj(i)) THEN { "ok" }
    ELSE IF Sess(Obj(i)).nonce >= MaxNonce THEN { "ok", "rejected" }
    ELSE Responses

\* the bound MaxNc stops the requests that would use the nonce once more
WithinNc(i, r) ==
    (IsHttp(Obj(i)) /\ r.net /\ Sess(Obj(i)).pc # "stale") => Sess(Obj(i)).ncvalue_num < MaxNc

Store_OnClass(objs, i, self) ==
    [j \in DOMAIN objs |->
        IF j = i THEN Some(self)
        ELSE IF objs[j] # None /\ objs[j][1].cls = self.cls
        THEN Some([objs[j][1] EXCEPT !.is_authenticated = self.is_authenticated])
        ELSE objs[j]]

\* the attribute assignments of a method (self.x = ...) bind on the instance
\* the method was called on, and on no other
Store(objs, i, self) == [objs EXCEPT ![i] = Some(self)]

\* the call op on object i ended as r says
Done(i, op, r, mode, power, flag, resp) ==
    /\ WithinNc(i, r)
    /\ inst' = Store(inst, i, r.self)
    /\ last' = [NoLast EXCEPT !.op = op, !.id = i, !.mode = mode, !.power = power,
                              !.flag = flag, !.resp = resp, !.out = r.out,
                              !.auth_before = Obj(i).is_authenticated,
                              !.sent = r.sent, !.net = r.net,
                              !.log = IF "log" \in DOMAIN r THEN r.log ELSE ""]

\* result = strip_dict(x)
StripDict ==
    /\ last = NoLast
    /\ \E x \in NormalizerInputs :
         last' = [NoLast EXCEPT !.op = "strip_dict", !.input = Some(x),
                                !.output = Some(strip_dict(x))]
    /\ UNCHANGED inst

\* strip_dict(result)
StripDictAgain ==
    /\ last.op = "strip_dict"
    /\ last' = [NoLast EXCEPT !.op = "strip_dict_again", !.input = last.output,
                              !.output = Some(strip_dict(last.output[1]))]
    /\ UNCHANGED inst

\* inverter = create_inverter(config)
CreateInverterFrom(i, configs) ==
    /\ ~Built(i)
    /\ \E config \in configs :
         LET r == create_inverter(config) IN
         /\ inst' = [inst EXCEPT ![i] = r.obj]
         /\ last' = [NoLast EXCEPT !.op = "create_inverter", !.id = i, !.out = r.out,
                                   !.cfg = Some(config), !.log = r.log,
                                   !.message = r.message]

CreateInverter(i) == CreateInverterFrom(i, Configs)

\* the records two instances are built from: one per kind of backend
PairConfigs ==
    { Config(Some(k), Some("192.168.1.100"), None, Some("test_password"),
             Some(10000), Some(15000)) : k \in { T_default, T_victron, T_fronius_gen24 } }

CreateInverterOfPair(i) == CreateInverterFrom(i, PairConfigs)

\* one call of the factory from the initial state
CreateInverterAny(i) == last = NoLast /\ CreateInverterFrom(i, FactoryConfigs)

\* inverter = MockInverter(config), as the fixture of test_base_inverter.py
ConstructMock(i) ==
    /\ ~Built(i)
    /\ \E config \in MockConfigs :
         LET r == Construct("MockInverter", config) IN
         /\ inst' = [inst EXCEPT ![i] = r.obj]
         /\ last' = [NoLast EXCEPT !.op = "MockInverter", !.id = i, !.out = r.out,
                                   !.cfg = Some(config)]

Initialize(i) ==
    /\ Idle(i)
    /\ Done(i, "initialize", initialize(Obj(i)), "", 0, FALSE, "")

\* authenticate(): on an HTTP backend the first pass of the login loop
Authenticate(i) ==
    /\ Idle(i)
    /\ \E resp \in RespFor(i) :
         Done(i, "authenticate", authenticate(Obj(i), resp), "", 0, FALSE, resp)

\* a further pass of the login loop of authenticate()
LoginRetry(i) ==
    /\ Built(i) /\ IsHttp(Obj(i)) /\ Sess(Obj(i)).pc = "login"
    /\ \E resp \in RespFor(i) :
         Done(i, "authenticate", Http_login_attempt(Obj(i), resp), "", 0, FALSE, resp)

\* the step that follows a stale-nonce signal
Rechallenge(i) ==
    /\ Built(i) /\ IsHttp(Obj(i)) /\ Sess(Obj(i)).pc = "stale"
    /\ Done(i, "challenge", Http_rechallenge(Obj(i)), "", 0, FALSE, "")

ConnectInverter(i) ==
    /\ Idle(i)
    /\ Done(i, "connect_inverter", connect_inverter(Obj(i)), "", 0, FALSE, "")

DisconnectInverter(i) ==
    /\ Idle(i)
    /\ Done(i, "disconnect_inverter", disconnect_inverter(Obj(i)), "", 0, FALSE, "")

SetBatteryMode(i) ==
    /\ Idle(i)
    /\ \E mode \in Modes, resp \in RespFor(i) :
         Done(i, "set_battery_mode", set_battery_mode(Obj(i), mode, resp),
              mode, 0, FALSE, resp)

SetModeAvoidDischarge(i) ==
    /\ Idle(i)
    /\ \E resp \in RespFor(i) :
         Done(i, "set_mode_avoid_discharge", set_mode_avoid_discharge(Obj(i), resp),
              "", 0, FALSE, resp)

SetModeAllowDischarge(i) ==
    /\ Idle(i)
    /\ \E resp \in RespFor(i) :
         Done(i, "set_mode_allow_discharge", set_mode_allow_discharge(Obj(i), resp),
              "", 0, FALSE, resp)

SetModeForceCharge(i) ==
    /\ Idle(i)
    /\ \E p \in Powers, resp \in RespFor(i) :
         Done(i, "set_mode_force_charge", set_mode_force_charge(Obj(i), p, resp),
              "", p, FALSE, resp)

SetAllowGridCharging(i) ==
    /\ Idle(i)
    /\ \E v \in BOOLEAN, resp \in RespFor(i) :
         Done(i, "set_allow_grid_charging", set_allow_grid_charging(Obj(i), v, resp),
              "", 0, v, resp)

GetBatteryInfo(i) ==
    /\ Idle(i)
    /\ \E resp \in RespFor(i) :
         Done(i, "get_battery_info", get_battery_info(Obj(i), resp), "", 0, FALSE, resp)

FetchInverterData(i) ==
    /\ Idle(i)
    /\ \E resp \in RespFor(i) :
         Done(i, "fetch_inverter_data", fetch_inverter_data(Obj(i), resp),
              "", 0, FALSE, resp)

SupportsExtendedMonitoring(i) ==
    /\ Idle(i)
    /\ Done(i, "supports_extended_monitoring", supports_extended_monitoring(Obj(i)),
            "", 0, FALSE, "")

\* the inherited hooks; the HTTP backends override api_set_max_pv_charge_rate
ApiSetMaxPvChargeRate(i) ==
    /\ Idle(i) /\ ~IsHttp(Obj(i))
    /\ \E w \in Powers :
         Done(i, "api_set_max_pv_charge_rate", Base_api_set_max_pv_charge_rate(Obj(i), w),
              "", w, FALSE, "")

Disconnect(i) ==
    /\ Idle(i) /\ ~IsHttp(Obj(i))
    /\ Done(i, "disconnect", Base_disconnect(Obj(i)), "", 0, FALSE, "")

Shutdown(i) ==
    /\ Idle(i) /\ ~IsHttp(Obj(i))
    /\ Done(i, "shutdown", Base_shutdown(Obj(i)), "", 0, FALSE, "")

Next ==
    \E i \in InstanceIds :
        \/ CreateInverter(i)
        \/ ConstructMock(i)
        \/ Initialize(i)
        \/ Authenticate(i)
        \/ LoginRetry(i)
        \/ Rechallenge(i)
        \/ ConnectInverter(i)
        \/ DisconnectInverter(i)
        \/ SetBatteryMode(i)
        \/ SetModeAvoidDischarge(i)
        \/ SetModeAllowDischarge(i)
        \/ SetModeForceCharge(i)
        \/ SetAllowGridCharging(i)
        \/ GetBatteryInfo(i)
        \/ FetchInverterData(i)
        \/ SupportsExtendedMonitoring(i)
        \/ ApiSetMaxPvChargeRate(i)
        \/ Disconnect(i)
        \/ Shutdown(i)

Spec == Init /\ [][Next]_vars

\* two instances, each built by the factory, driven in any interleaving
PairNext ==
    \E i \in PairIds :
        \/ CreateInverterOfPair(i)
        \/ Initialize(i)
        \/ Authenticate(i)
        \/ LoginRetry(i)
        \/ Rechallenge(i)
        \/ GetBatteryInfo(i)

PairSpec == Init /\ [][PairNext]_vars

\* the telemetry normalizer alone: strip_dict(x), then strip_dict of its result
NormalizerNext == StripDict \/ StripDictAgain

NormalizerSpec == Init /\ [][NormalizerNext]_vars

\* the factory alone, on every enumerated configuration record
FactoryNext == \E i \in InstanceIds : CreateInverterAny(i)

FactorySpec == Init /\ [][FactoryNext]_vars

------------------------------------------------------------------------------
(* Helpers of the properties *)

\* the configuration record the latest factory call was given
LastCfg == last.cfg[1]

\* the type string of that record as written ("" when the key is missing)
LastType == Get(LastCfg.type, <<>>)

FactoryCall == last.op = "create_inverter"

\* a and b are the same string up to the case of their letters
SameUpToCase(a, b) ==
    /\ Len(a) = Len(b)
    /\ \A k \in 1..Len(a) : a[k] = b[k] \/ UpperChar(a[k]) = b[k] \/ a[k] = UpperChar(b[k])

\* the registered keys t stands for
KeysOf(t) == { k \in RegisteredKeys : SameUpToCase(t, k) }

Occurrences(s, sep) ==
    { k \in 1..(Len(s) - Len(sep) + 1) : SubSeq(s, k, k + Len(sep) - 1) = sep }

MinOf(S) == CHOOSE x \in S : \A y \in S : x <= y

MaxOf(S) == CHOOSE x \in S : \A y \in S : x >= y

\* s.split(sep)
RECURSIVE Split(_, _)
Split(s, sep) ==
    IF Occurrences(s, sep) = {} THEN << s >>
    ELSE LET k == MinOf(Occurrences(s, sep))
         IN  << SubSeq(s, 1, k - 1) >> \o Split(SubSeq(s, k + Len(sep), Len(s)), sep)

\* what follows the last occurrence of marker in s
AfterLast(s, marker) ==
    IF Occurrences(s, marker) = {} THEN <<>>
    ELSE SubSeq(s, MaxOf(Occurrences(s, marker)) + Len(marker), Len(s))

\* the type strings an error message lists after "Supported types: "
ListedTypes(message) == Range(Split(AfterLast(message, MsgSupported), CommaSpace))

------------------------------------------------------------------------------
(* Properties of the factory, checked under FactorySpec *)

\* C4: for every type string that is a key of the active or of the legacy
\* registry, create_inverter returns, without raising, an object of the
\* class the registry maps the key to, built from the given record, and that
\* class defines every abstract method of the contract.
C4_RegisteredTypeIsBuilt ==
    (FactoryCall /\ LastType \in RegisteredKeys) =>
        /\ last.out = Return(RegistryClass(LastType))
        /\ Built(last.id)
        /\ Obj(last.id).cls = RegistryClass(LastType)
        /\ Obj(last.id).inverter_type = RegistryClass(LastType)
        /\ Obj(last.id).config = LastCfg
        /\ AbstractMethods \subseteq Overrides(Obj(last.id).cls)

C4_Witness ==
    /\ FactoryCall /\ LastType = T_victron
    /\ Built(last.id) /\ Obj(last.id).cls = "VictronInverter"

\* C5: for every type string that no registered key matches (up to case,
\* see C6), create_inverter builds nothing and raises ValueError, and the
\* message lists every key of the active and of the legacy registry.
C5_UnknownTypeIsRejected ==
    (FactoryCall /\ KeysOf(LastType) = {}) =>
        /\ last.out = Raise("ValueError")
        /\ ~Built(last.id)
        /\ RegisteredKeys \subseteq ListedTypes(last.message)

C5_Witness ==
    /\ FactoryCall /\ LastType = T_victron \o <<"2">>
    /\ last.out = Raise("ValueError")
    /\ T_fronius_gen24_v2 \in ListedTypes(last.message)

\* C6: the lookup is case-insensitive: a type string that differs from a
\* registered key only in the case of its letters builds the same class, with
\* the same result, as the key itself.
C6_LookupIgnoresCase ==
    FactoryCall =>
        \A k \in KeysOf(LastType) :
            LET r == create_inverter([LastCfg EXCEPT !.type = Some(k)]) IN
            /\ last.out = r.out
            /\ last.log = r.log
            /\ Built(last.id)
            /\ r.obj # None
            /\ Obj(last.id).cls = r.obj[1].cls
            /\ Obj(last.id).cls = RegistryClass(k)

C6_Witness ==
    /\ FactoryCall /\ LastType = Upper(T_fronius_gen24_legacy)
    /\ Built(last.id) /\ Obj(last.id).cls = "FroniusLegacy"

------------------------------------------------------------------------------
(* Properties of the operations, checked under Spec *)

\* the control and telemetry operations
ControlOps ==
    { "set_battery_mode", "set_mode_avoid_discharge", "set_mode_allow_discharge",
      "set_mode_force_charge", "set_allow_grid_charging" }

TelemetryOps == { "get_battery_info", "fetch_inverter_data" }

\* the object the latest call was made on
LastObj == Obj(last.id)

OnClass(cls) == last.id \in InstanceIds /\ Built(last.id) /\ LastObj.cls = cls

\* the backends whose code is in the source tree
SourceClasses == { "NullInverter", "VictronInverter", "MockInverter" }

\* what NullInverter's no-op methods return
NullResult(op) ==
    CASE op = "set_allow_grid_charging" -> Return("None")
      [] op \in TelemetryOps            -> Return("{}")
      [] OTHER                          -> Return("True")

\* C1 as stated: on every backend a control or telemetry operation invoked
\* while is_authenticated is false fails with an "unauthenticated" error.
C1_UnauthenticatedCallFails ==
    (last.op \in ControlOps \cup TelemetryOps /\ ~last.auth_before) =>
        last.out = Raise("UnauthenticatedCallError")

\* C1, amended: on the backends whose code is in the source tree an operation
\* invoked while is_authenticated is false never fails with an
\* "unauthenticated" error: NullInverter returns its no-op result,
\* VictronInverter raises NotImplementedError, and neither changes the object.
C1_UnauthenticatedCallOnSourceBackends ==
    (last.op \in ControlOps \cup TelemetryOps /\ ~last.auth_before) =>
        /\ (OnClass("NullInverter") => last.out = NullResult(last.op))
        /\ (OnClass("VictronInverter") => last.out = Raise("NotImplementedError"))
        /\ (LastObj.cls \in SourceClasses =>
              /\ last.out # Raise("UnauthenticatedCallError")
              /\ ~LastObj.is_authenticated
              /\ last.sent = None /\ ~last.net)

C1_Witness ==
    /\ last.op = "get_battery_info" /\ ~last.auth_before
    /\ OnClass("NullInverter") /\ last.out = Return("{}")

\* C2: from every state and on every backend, set_mode_avoid_discharge()
\* ends as set_battery_mode("hold") would from the same state: the same
\* result, the same object afterwards, the same command handed to the device;
\* likewise set_mode_allow_discharge() and set_battery_mode("normal").
C2_DischargeModesAreSetBatteryMode ==
    [][ /\ last'.op = "set_mode_avoid_discharge" =>
             LET r == set_battery_mode(Obj(last'.id), "hold", last'.resp) IN
             /\ last'.out = r.out /\ last'.sent = r.sent /\ last'.net = r.net
             /\ inst'[last'.id] = Some(r.self)
        /\ last'.op = "set_mode_allow_discharge" =>
             LET r == set_battery_mode(Obj(last'.id), "normal", last'.resp) IN
             /\ last'.out = r.out /\ last'.sent = r.sent /\ last'.net = r.net
             /\ inst'[last'.id] = Some(r.self) ]_vars

C2_Witness ==
    /\ last.op = "set_mode_avoid_discharge" /\ OnClass("MockInverter")
    /\ LastObj.mock.last_mode_set = Some("hold") /\ last.out = Return("True")

\* the classes the factory can build
FactoryClasses == { RegistryClass(k) : k \in RegisteredKeys }

\* the latest call was set_mode_force_charge on a factory-built backend
\* configured with both ceilings
ForceChargeWithCeilings ==
    /\ last.op = "set_mode_force_charge"
    /\ LastObj.cls \in FactoryClasses
    /\ LastObj.max_grid_charge_rate # None
    /\ LastObj.max_pv_charge_rate # None

\* min(max_grid_charge_rate, max_pv_charge_rate) of the object called
Ceiling ==
    IF LastObj.max_grid_charge_rate[1] <= LastObj.max_pv_charge_rate[1]
    THEN LastObj.max_grid_charge_rate[1]
    ELSE LastObj.max_pv_charge_rate[1]

\* the requested power, capped
Capped == IF last.power > Ceiling THEN Ceiling ELSE last.power

\* C3 as stated: on every backend configured with both ceilings
\* set_mode_force_charge(p) sends or records nothing above the ceiling, and
\* the request is never rejected: what is passed on is p capped.
C3_ForceChargeIsCappedNotRejected ==
    (ForceChargeWithCeilings /\ last.auth_before) =>
        /\ last.out.kind = "return"
        /\ last.sent # None => last.sent[1].power = Capped

\* C3, amended: on NullInverter and VictronInverter, the factory-built
\* backends whose code is in the source tree, configured with both ceilings,
\* set_mode_force_charge(p) sends or records no power above
\* min(max_grid_charge_rate, max_pv_charge_rate), because it sends and
\* records nothing: NullInverter accepts every p and returns True without
\* capping it or passing it on; VictronInverter rejects every p with
\* NotImplementedError.  Whatever any modelled backend does send is p capped.
C3_ForceChargeNeverAboveCeiling ==
    ForceChargeWithCeilings =>
        /\ last.sent # None => last.sent[1].power = Capped /\ last.sent[1].power <= Ceiling
        /\ LastObj.cls \in SourceClasses =>
               last.sent = None /\ ~last.net /\ LastObj.mock.forced_charge_power = None
        /\ OnClass("NullInverter") => last.out = Return("True")
        /\ OnClass("VictronInverter") => last.out = Raise("NotImplementedError")

C3_Witness ==
    /\ ForceChargeWithCeilings /\ OnClass("NullInverter")
    /\ last.power > Ceiling /\ last.out = Return("True")

\* the methods of the contract
ContractMethods ==
    { "initialize", "authenticate", "connect_inverter", "disconnect_inverter" }
        \cup ControlOps \cup TelemetryOps

\* C10 as stated: on VictronInverter every contract method, authenticate
\* included, raises NotImplementedError.
C10_EveryVictronMethodUnsupported ==
    (last.op \in ContractMethods /\ OnClass("VictronInverter")) =>
        last.out = Raise("NotImplementedError")

\* C10, amended: on VictronInverter every contract method other than
\* authenticate raises NotImplementedError and returns no value;
\* authenticate is inherited from BaseInverter, returns True and sets
\* is_authenticated.
C10_VictronUnsupportedExceptAuthenticate ==
    (last.op \in ContractMethods /\ OnClass("VictronInverter")) =>
        IF last.op = "authenticate"
        THEN last.out = Return("True") /\ LastObj.is_authenticated
        ELSE /\ last.out = Raise("NotImplementedError")
             /\ LastObj.is_authenticated = last.auth_before

C10_Witness ==
    /\ last.op = "fetch_inverter_data" /\ OnClass("VictronInverter")
    /\ last.auth_before /\ last.out = Raise("NotImplementedError")

------------------------------------------------------------------------------
(* Properties of the session protocol of the HTTP backends, under Spec *)

\* the step is a call (or a pass of a call) on HTTP backend i
HttpStep(i) == Built(i) /\ IsHttp(Obj(i)) /\ last'.id = i /\ inst'[i] # None

SessAfter(i) == inst'[i][1].session[1]

LoginSucceeds == last'.op = "authenticate" /\ last'.out = Return("True")

\* C7: under one nonce every authenticated request carries a counter value
\* greater than the request before it; a successful authenticate() leaves the
\* login flag at "subsequent" and the counter above the value the previous
\* successful authenticate() under the same nonce left.
C7_NonceCounterIncreases ==
    [][ \A i \in InstanceIds :
          (HttpStep(i) /\ last'.net /\ last'.op # "challenge") =>
              /\ SessAfter(i).nonce = Sess(Obj(i)).nonce
              /\ SessAfter(i).nc_used > Sess(Obj(i)).nc_used
              /\ SessAfter(i).ncvalue_num > SessAfter(i).nc_used
              /\ LoginSucceeds =>
                    /\ SessAfter(i).subsequent_login
                    /\ Sess(Obj(i)).auth_nc # 0 =>
                          SessAfter(i).ncvalue_num > Sess(Obj(i)).auth_nc ]_vars

\* the second successful authenticate() in a row on a fresh session
C7_Witness ==
    /\ last.op = "authenticate" /\ last.out = Return("True") /\ last.auth_before
    /\ IsHttp(LastObj)
    /\ Sess(LastObj).nonce = 0 /\ Sess(LastObj).nc_used = 2 /\ Sess(LastObj).ncvalue_num = 3
    /\ Sess(LastObj).subsequent_login

\* C8: a pass of authenticate() entered with the attempt counter above the
\* cap raises AuthenticationError without a network request; a login request
\* is only sent while the counter is below the cap, so a loop sends at most
\* MaxLoginAttempts of them; the counter never passes the cap by more than
\* one; a successful authenticate() leaves the counter at 0.
C8_LoginAttemptsBounded ==
    [][ \A i \in InstanceIds :
          (HttpStep(i) /\ last'.op = "authenticate") =>
              /\ Sess(Obj(i)).login_attempts > MaxLoginAttempts =>
                    last'.out = Raise("AuthenticationError") /\ ~last'.net
              /\ last'.net => Sess(Obj(i)).login_attempts < MaxLoginAttempts
              /\ SessAfter(i).login_attempts <= MaxLoginAttempts + 1
              /\ LoginSucceeds => SessAfter(i).login_attempts = 0
              /\ last'.out = Raise("AuthenticationError") => SessAfter(i).pc = "idle" ]_vars

C8_Witness ==
    /\ last.op = "authenticate" /\ last.out = Raise("AuthenticationError") /\ ~last.net
    /\ IsHttp(LastObj) /\ Sess(LastObj).login_attempts > MaxLoginAttempts

\* C9: a request the server answers with a stale-nonce signal leaves the
\* session waiting for the challenge, and the step that follows is the
\* re-issued challenge request: a new nonce, the counter back at its initial
\* value, the login flag back at "first".
C9_StaleNonceRestartsSession ==
    [][ \A i \in InstanceIds :
          /\ (HttpStep(i) /\ last'.net /\ last'.resp = "stale") => SessAfter(i).pc = "stale"
          /\ (Built(i) /\ IsHttp(Obj(i)) /\ Sess(Obj(i)).pc = "stale") =>
                /\ last'.op = "challenge" /\ last'.id = i /\ last'.net
                /\ SessAfter(i).nonce # Sess(Obj(i)).nonce
                /\ SessAfter(i).ncvalue_num = InitialSession(Obj(i).cls).ncvalue_num
                /\ SessAfter(i).subsequent_login = InitialSession(Obj(i).cls).subsequent_login
                /\ SessAfter(i).pc # "stale" ]_vars

\* a challenge re-issued on a session that had logged in and used its nonce
C9_Witness ==
    /\ last.op = "challenge" /\ IsHttp(LastObj) /\ LastObj.is_authenticated
    /\ Sess(LastObj).nonce = 1 /\ Sess(LastObj).ncvalue_num = 1
    /\ ~Sess(LastObj).subsequent_login

------------------------------------------------------------------------------
(* Properties of the no-op backend and of the inherited methods, under Spec *)

\* what the connection, telemetry and capability methods of NullInverter
\* return
NullAnswer(op) ==
    CASE op \in {"connect_inverter", "disconnect_inverter"} -> Return("True")
      [] op \in TelemetryOps                                 -> Return("{}")
      [] op = "supports_extended_monitoring"                 -> Return("False")

\* C11: on NullInverter, after any sequence of operations and whether or not
\* initialize() has been called, connect_inverter() and disconnect_inverter()
\* return True, get_battery_info() and fetch_inverter_data() return an empty
\* mapping and supports_extended_monitoring() returns False; none of them
\* touches the network.
C11_NullAnswersAreFixed ==
    (OnClass("NullInverter") /\ last.op \in
        {"connect_inverter", "disconnect_inverter", "supports_extended_monitoring"}
            \cup TelemetryOps) =>
        /\ last.out = NullAnswer(last.op)
        /\ last.sent = None /\ ~last.net

\* connect_inverter() on a NullInverter that was never initialized
C11_Witness ==
    /\ OnClass("NullInverter") /\ last.op = "connect_inverter"
    /\ ~last.auth_before /\ ~LastObj.is_authenticated
    /\ last.out = Return("True")

\* C12: on NullInverter every control call completes without error and
\* reports success, for every mode string, every power and both booleans:
\* the mode setters and set_mode_force_charge return True;
\* set_allow_grid_charging, which has no return value in the contract,
\* returns normally.  Nothing is sent and the object is left as it was.
C12_NullControlCallsSucceed ==
    [][ \A i \in InstanceIds :
          (Built(i) /\ Obj(i).cls = "NullInverter" /\ last'.id = i
                    /\ last'.op \in ControlOps) =>
              /\ last'.out.kind = "return"
              /\ last'.op # "set_allow_grid_charging" => last'.out = Return("True")
              /\ last'.op = "set_allow_grid_charging" => last'.out = Return("None")
              /\ last'.sent = None /\ ~last'.net
              /\ inst'[i] = inst[i] ]_vars

\* set_battery_mode with a mode string that is none of the known modes
C12_Witness ==
    /\ OnClass("NullInverter") /\ last.op = "set_battery_mode"
    /\ last.mode = "bogus" /\ last.out = Return("True")

\* C13: on a backend that inherits BaseInverter.authenticate, authenticate()
\* returns True from any state and leaves is_authenticated true and every
\* other attribute as it was; a repeated call gives the same result and
\* leaves the state unchanged.
C13_InheritedAuthenticateSucceeds ==
    [][ \A i \in InstanceIds :
          (Built(i) /\ ~IsHttp(Obj(i)) /\ last'.id = i /\ last'.op = "authenticate") =>
              /\ last'.out = Return("True")
              /\ inst'[i] = Some([Obj(i) EXCEPT !.is_authenticated = TRUE])
              /\ Obj(i).is_authenticated => inst'[i] = inst[i] ]_vars

\* a second authenticate() on an already authenticated VictronInverter
C13_Witness ==
    /\ OnClass("VictronInverter") /\ last.op = "authenticate"
    /\ last.auth_before /\ LastObj.is_authenticated /\ last.out = Return("True")

\* C14: shutdown() calls disconnect(), and is safe to call any number of
\* times in any state: every call, a repeated one and one made before
\* initialize() or authenticate() included, returns None without raising,
\* writes disconnect()'s "Session closed" to the log and leaves the object as
\* it was, so that the next call finds the state the first one found.
C14_ShutdownIsSafe ==
    [][ \A i \in InstanceIds :
          (Built(i) /\ last'.id = i /\ last'.op = "shutdown") =>
              /\ last'.out = Return("None")
              /\ last'.log = Base_disconnect(Obj(i)).log
              /\ inst'[i] = inst[i] ]_vars

\* shutdown() on a VictronInverter that was never initialized or
\* authenticated
C14_Witness ==
    /\ OnClass("VictronInverter") /\ last.op = "shutdown"
    /\ ~last.auth_before /\ last.out = Return("None") /\ last.log = "Session closed"

\* C15 as stated: on every backend the factory can build, in every state,
\* disconnect_inverter() returns True and never raises.
C15_DisconnectInverterAlwaysTrue ==
    (last.op = "disconnect_inverter" /\ Built(last.id) /\ LastObj.cls \in FactoryClasses) =>
        last.out = Return("True")

\* C15, amended: in every state, authenticated or not, disconnect_inverter()
\* returns True on NullInverter and raises NotImplementedError on
\* VictronInverter; on both it leaves the object as it was.
C15_DisconnectInverterOnSourceBackends ==
    [][ \A i \in InstanceIds :
          (Built(i) /\ last'.id = i /\ last'.op = "disconnect_inverter") =>
              /\ Obj(i).cls = "NullInverter" =>
                    last'.out = Return("True") /\ inst'[i] = inst[i]
              /\ Obj(i).cls = "VictronInverter" =>
                    last'.out = Raise("NotImplementedError") /\ inst'[i] = inst[i] ]_vars

\* disconnect_inverter() on a NullInverter that never connected
C15_Witness ==
    /\ OnClass("NullInverter") /\ last.op = "disconnect_inverter"
    /\ ~last.auth_before /\ last.out = Return("True")

\* C16: on every backend that does not override them,
\* supports_extended_monitoring() returns False in every state, and
\* api_set_max_pv_charge_rate(w) returns without error and changes no
\* attribute, max_pv_charge_rate included.
C16_OptionalCapabilitiesDefaultOff ==
    [][ \A i \in InstanceIds :
          (Built(i) /\ last'.id = i) =>
              /\ (last'.op = "supports_extended_monitoring"
                    /\ "supports_extended_monitoring" \notin Overrides(Obj(i).cls)) =>
                    last'.out = Return("False") /\ inst'[i] = inst[i]
              /\ (last'.op = "api_set_max_pv_charge_rate" /\ ~IsHttp(Obj(i))) =>
                    /\ last'.out = Return("None")
                    /\ inst'[i] = inst[i]
                    /\ inst'[i][1].max_pv_charge_rate = Obj(i).max_pv_charge_rate ]_vars

\* api_set_max_pv_charge_rate(w) on the stub backend with w other than the
\* configured ceiling
C16_Witness ==
    /\ OnClass("VictronInverter") /\ last.op = "api_set_max_pv_charge_rate"
    /\ LastObj.max_pv_charge_rate # None
    /\ last.power # LastObj.max_pv_charge_rate[1]
    /\ last.out = Return("None")

------------------------------------------------------------------------------
(* Properties of construction, under FactorySpec *)

\* no character of s is an upper-case letter
NoUpperCase(s) == \A k \in 1..Len(s) : s[k] \notin Range(UpperAlpha)

\* C17: the backend constructed from a configuration record has as user
\* the configured user in lower case, or "customer" when the record has no
\* user, and as password the configured password, or "" when the record has
\* none.
C17_UserLowercasedPasswordDefaulted ==
    (FactoryCall /\ Built(last.id)) =>
        /\ IF LastCfg.user = None
           THEN LastObj.user = S_customer
           ELSE SameUpToCase(LastObj.user, LastCfg.user[1]) /\ NoUpperCase(LastObj.user)
        /\ IF LastCfg.password = None
           THEN LastObj.password = ""
           ELSE LastObj.password = LastCfg.password[1]

\* a record with a mixed-case user and no password
C17_Witness ==
    /\ FactoryCall /\ Built(last.id)
    /\ LastCfg.user = Some(S_MyUser) /\ LastCfg.password = None
    /\ LastObj.user = <<"m","y","u","s","e","r">> /\ LastObj.password = ""

\* C20: a freshly constructed HTTP backend has the nonce-use counter at 1,
\* subsequent_login false, the login-attempt counter at 0 and
\* is_authenticated false; FroniusV2 has SHA256 selected.
C20_FreshHttpSession ==
    (FactoryCall /\ Built(last.id) /\ IsHttp(LastObj)) =>
        /\ Sess(LastObj).ncvalue_num = 1
        /\ Sess(LastObj).subsequent_login = FALSE
        /\ Sess(LastObj).login_attempts = 0
        /\ LastObj.is_authenticated = FALSE
        /\ LastObj.cls = "FroniusV2" => Sess(LastObj).algorithm = "SHA256"

\* a FroniusV2 built through the deprecated key
C20_Witness ==
    /\ FactoryCall /\ Built(last.id) /\ LastObj.cls = "FroniusV2"
    /\ Lower(LastType) = T_fronius_gen24_v2
    /\ Sess(LastObj).ncvalue_num = 1 /\ Sess(LastObj).algorithm = "SHA256"

------------------------------------------------------------------------------
(* Frame properties *)

\* the attributes BaseInverter.__init__ takes from the configuration record
BackendConfig(self) ==
    [ address              |-> self.address,
      user                 |-> self.user,
      password             |-> self.password,
      max_grid_charge_rate |-> self.max_grid_charge_rate,
      max_pv_charge_rate   |-> self.max_pv_charge_rate,
      inverter_type        |-> self.inverter_type,
      config               |-> self.config ]

\* C18: once a backend is constructed no operation on it, in any order,
\* changes its address, user, password, max_grid_charge_rate,
\* max_pv_charge_rate, stored type or the configuration record it keeps.
C18_BackendConfigImmutable ==
    [][ \A i \in InstanceIds :
          (Built(i) /\ inst'[i] # None) =>
              BackendConfig(inst'[i][1]) = BackendConfig(Obj(i)) ]_vars

\* set_allow_grid_charging(False) on an authenticated NullInverter leaves the
\* configured grid ceiling in place
C18_Witness ==
    /\ OnClass("NullInverter") /\ last.op = "set_allow_grid_charging" /\ ~last.flag
    /\ last.auth_before
    /\ LastObj.max_grid_charge_rate = LastObj.config.max_grid_charge_rate
    /\ LastObj.max_grid_charge_rate = Some(10000)

\* C19, under PairSpec: with two instances, a step on one of them (its
\* construction or any operation, in any interleaving) leaves the other
\* instance, is_authenticated and its session counters included, as it was.
C19_InstancesAreIndependent ==
    [][ \A i \in PairIds, j \in PairIds :
          (i # j /\ last'.id = i) => inst'[j] = inst[j] ]_vars

\* two NullInverters built from the same configuration record, the first
\* authenticated, the second not
C19_Witness ==
    /\ Built(1) /\ Built(2)
    /\ Obj(1).config = Obj(2).config /\ Obj(1).cls = "NullInverter"
    /\ last.op = "authenticate" /\ last.id = 1
    /\ Obj(1).is_authenticated /\ ~Obj(2).is_authenticated

------------------------------------------------------------------------------
(* Battery defaults of the HTTP backends, under Spec *)

\* C21: an HTTP backend constructed from a record that gives only type and
\* address has min_soc 5, max_soc 100 and capacity -1; capacity stays -1
\* until a battery read first succeeds, and is known from then on.
C21_BatteryDefaults ==
    [][ \A i \in InstanceIds :
          (inst'[i] # None /\ IsHttp(inst'[i][1]) /\ last'.id = i) =>
              /\ (last'.op = "create_inverter" /\ last'.cfg[1] \in MinimalConfigs) =>
                    /\ SessAfter(i).min_soc = 5
                    /\ SessAfter(i).max_soc = 100
                    /\ SessAfter(i).capacity = -1
              /\ (Built(i) /\ Sess(Obj(i)).capacity = -1
                    /\ ~(last'.op = "get_battery_info" /\ last'.out = Return("BatteryInfo"))) =>
                    SessAfter(i).capacity = -1
              /\ (last'.op = "get_battery_info" /\ last'.out = Return("BatteryInfo")) =>
                    SessAfter(i).capacity # -1 ]_vars

\* a battery read that failed on an authenticated backend built from a
\* minimal record: capacity is still unknown
C21_Witness ==
    /\ last.op = "get_battery_info" /\ last.out = Raise("TransportError")
    /\ IsHttp(LastObj) /\ LastObj.config \in MinimalConfigs
    /\ last.auth_before /\ Sess(LastObj).capacity = -1
    /\ Sess(LastObj).min_soc = 5 /\ Sess(LastObj).max_soc = 100

------------------------------------------------------------------------------
(* The normalizer, under NormalizerSpec *)

\* C22: strip_dict of a mapping is a mapping with no key that starts with
\* an underscore and with every other key of the input at its value;
\* strip_dict of a string, a number or None is the input; strip_dict of a
\* result of strip_dict is that result.
C22_StripDict ==
    /\ last.op = "strip_dict" =>
         LET x == last.input[1]
             y == last.output[1]
         IN  IF x.kind = "dict"
             THEN /\ y.kind = "dict"
                  /\ DOMAIN y.val \subseteq DOMAIN x.val
                  /\ \A k \in DOMAIN y.val : Len(k) = 0 \/ Head(k) # "_"
                  /\ \A k \in DOMAIN x.val :
                        (Len(k) = 0 \/ Head(k) # "_") =>
                            k \in DOMAIN y.val /\ y.val[k] = x.val[k]
             ELSE y = x
    /\ last.op = "strip_dict_again" => last.output = last.input

\* the mapping of the tests, with a key that has an underscore inside
C22_Witness ==
    /\ last.op = "strip_dict" /\ last.input[1].kind = "dict"
    /\ DOMAIN last.input[1].val =
          { <<"k","e","y">>, <<"p","u","b","l","i","c">>,
            <<"_","p","r","i","v","a","t","e">>, <<"a","_","b">> }
    /\ DOMAIN last.output[1].val =
          { <<"k","e","y">>, <<"p","u","b","l","i","c">>, <<"a","_","b">> }

------------------------------------------------------------------------------
(* The factory's tiers and the missing type key, under FactorySpec *)

\* C24: the registries share no key, and a type string that is constructed
\* stands for exactly one registered key; it is constructed through the
\* legacy tier, with the migration warning, exactly when that key is not a
\* key of the active tier, and otherwise through the active tier at
\* informational level; the class is the one that tier maps the key to.
C24_TierOrder ==
    /\ Range(INVERTER_TYPES_keys) \cap Range(LEGACY_INVERTER_TYPES_keys) = {}
    /\ (FactoryCall /\ Built(last.id)) =>
          /\ Cardinality(KeysOf(LastType)) = 1
          /\ \A k \in KeysOf(LastType) :
                IF k \in Range(INVERTER_TYPES_keys)
                THEN last.log = "info" /\ LastObj.cls = INVERTER_TYPES(k)
                ELSE /\ k \in Range(LEGACY_INVERTER_TYPES_keys)
                     /\ last.log = "warning" /\ LastObj.cls = LEGACY_INVERTER_TYPES(k)

\* FroniusV2 built through its deprecated key, with the warning
C24_Witness ==
    /\ FactoryCall /\ Built(last.id) /\ last.log = "warning"
    /\ KeysOf(LastType) = { T_fronius_gen24_v2 } /\ LastObj.cls = "FroniusV2"
    /\ INVERTER_TYPES(T_fronius_gen24) = "FroniusV2"

\* C26: a record with no type key is handled as the type "": the factory
\* raises the unknown-type error, whose message quotes the empty string,
\* and constructs nothing; it does not build the "default" backend.
C26_MissingTypeIsRejected ==
    (FactoryCall /\ LastCfg.type = None) =>
        /\ last.out = Raise("ValueError")
        /\ ~Built(last.id)
        /\ Len(last.message) >= Len(MsgUnknown) + Len(MsgSupported)
        /\ SubSeq(last.message, 1, Len(MsgUnknown) + Len(MsgSupported))
              = MsgUnknown \o MsgSupported

\* a record with an address and a user but no type key
C26_Witness ==
    /\ FactoryCall /\ LastCfg.type = None
    /\ LastCfg.address # None /\ LastCfg.user # None
    /\ last.out = Raise("ValueError") /\ ~Built(last.id)

------------------------------------------------------------------------------
(* is_authenticated and shutdown(), under Spec *)

\* C25: is_authenticated is false right after construction and only ever
\* goes from false to true: the step that sets it is authenticate() or
\* NullInverter.initialize(); every other operation leaves it as it was.
C25_AuthenticatedOnlyRises ==
    [][ \A i \in InstanceIds :
          /\ (~Built(i) /\ inst'[i] # None) => ~inst'[i][1].is_authenticated
          /\ (Built(i) /\ inst'[i] # None) =>
                /\ Obj(i).is_authenticated => inst'[i][1].is_authenticated
                /\ inst'[i][1].is_authenticated # Obj(i).is_authenticated =>
                      \/ last'.op = "authenticate"
                      \/ last'.op = "initialize" /\ Obj(i).cls = "NullInverter" ]_vars

\* disconnect_inverter() on an authenticated NullInverter, still authenticated
C25_Witness ==
    /\ OnClass("NullInverter") /\ last.op = "disconnect_inverter"
    /\ last.auth_before /\ LastObj.is_authenticated

\* C27: shutdown() runs only the base disconnect(), a log-only step, and not
\* disconnect_inverter(): it returns None where disconnect_inverter() raises
\* (VictronInverter) and leaves unchanged the state disconnect_inverter()
\* would change (MockInverter's inverter_connected); on every backend that
\* inherits it, it leaves the whole object unchanged.
C27_ShutdownSkipsDisconnectInverter ==
    [][ \A i \in InstanceIds :
          (Built(i) /\ ~IsHttp(Obj(i)) /\ last'.id = i /\ last'.op = "shutdown") =>
              /\ last'.out = Return("None")
              /\ inst'[i] = inst[i]
              /\ disconnect_inverter(Obj(i)).out.kind = "raise" =>
                    last'.out # disconnect_inverter(Obj(i)).out
              /\ disconnect_inverter(Obj(i)).self # Obj(i) =>
                    inst'[i] # Some(disconnect_inverter(Obj(i)).self) ]_vars

\* shutdown() on a connected MockInverter: inverter_connected stays true
C27_Witness ==
    /\ OnClass("MockInverter") /\ last.op = "shutdown"
    /\ LastObj.mock.inverter_connected = Some(TRUE)
    /\ last.out = Return("None")

====
